---- MODULE Spec2Model ----
(***************************************************************************)
(* A model of qr_code_app.py: hex_to_rgb and create_qr_image, the raster   *)
(* compositor that turns a QR module grid into an image with an optional   *)
(* logo (background treatment, shape mask, border frame, flatten).         *)
(*                                                                         *)
(* An image is a record [mode, size, px]: px maps each position <<x, y>>   *)
(* to a pixel [c, a], c the colour and a the alpha (255 in an RGB image,   *)
(* which has no alpha band).  A colour is [k |-> "rgb", v |-> <<r,g,b>>]   *)
(* or, for a pixel of the logo, [k |-> "logo", v |-> <<src, hist, x, y>>]: *)
(* the pixel (x, y) of the logo file src after the resizes hist.  The      *)
(* Lanczos filter is not computed: two logo pixels are the same value      *)
(* exactly when they come from the same file by the same resizes at the    *)
(* same position.  The logo is an image without alpha band (mode RGB).     *)
(***************************************************************************)
EXTENDS Integers, Sequences, FiniteSets, TLC

VARIABLES
    strict_coords,  \* the installed Pillow rejects x1 < x0 in ImageDraw (9.5+)
    logo_image,     \* the logo Image object the caller holds: [src, w, h, hist]
    pc,             \* position of the render call
    args,           \* arguments of the current call of create_qr_image
    img,            \* the canvas
    grad_img,       \* the radial gradient buffer
    loc,            \* locals: logo_x, logo_y, border_width, ...
    result,         \* what create_qr_image returned
    calls,          \* render calls started so far
    hex_color,      \* argument of hex_to_rgb
    hex_out         \* its result

vars == <<strict_coords, logo_image, pc, args, img, grad_img, loc, result,
          calls, hex_color, hex_out>>

renderVars == <<strict_coords, logo_image, pc, args, img, grad_img, loc,
                result, calls>>

hexVars == <<hex_color, hex_out>>

(***************************************************************************)
(* Bounds of the model.                                                    *)
(***************************************************************************)
MaxGrid == 2

MaxModule == 2

MaxBorder == 1

MaxLogo == 5

MaxCalls == 2

MaxHexLen == 7

(***************************************************************************)
(* Arithmetic helpers.                                                     *)
(***************************************************************************)
Max(a, b) == IF a >= b THEN a ELSE b

Min(a, b) == IF a <= b THEN a ELSE b

Abs(a) == IF a >= 0 THEN a ELSE -a

Sq(a) == a * a

CeilDiv(a, b) == (a + b - 1) \div b

\* round(num / den), halves to the even neighbour as Python's round
RoundHalfEven(num, den) ==
    LET q == num \div den
        r == num % den
    IN  IF 2 * r < den THEN q
        ELSE IF 2 * r > den THEN q + 1
        ELSE IF q % 2 = 0 THEN q ELSE q + 1

RECURSIVE SqrtSearch(_, _, _)
SqrtSearch(n, lo, hi) ==
    IF lo >= hi THEN lo
    ELSE LET mid == (lo + hi + 1) \div 2
         IN  IF mid * mid <= n THEN SqrtSearch(n, mid, hi)
             ELSE SqrtSearch(n, lo, mid - 1)

\* floor of the square root of n, for 0 <= n < 46340^2
ISqrt(n) == SqrtSearch(n, 0, 46339)

Pos(w, h) == (0 .. w - 1) \X (0 .. h - 1)

(***************************************************************************)
(* Colours, pixels, images.                                                *)
(***************************************************************************)
Rgb(t) == [k |-> "rgb", v |-> t]

LogoPx(logo, x, y) == [k |-> "logo", v |-> <<logo.src, logo.hist, x, y>>]

Pixel(c, a) == [c |-> c, a |-> a]

NoImage == [mode |-> "none", size |-> <<0, 0>>, px |-> << >>]

\* Image.new(mode, size, color): a 3-tuple colour gets alpha 255
NewImage(mode, w, h, color) ==
    [mode |-> mode, size |-> <<w, h>>,
     px |-> [p \in Pos(w, h) |-> Pixel(Rgb(color), 255)]]

(***************************************************************************)
(* ImageDraw primitives.  Coordinates are inclusive; drawing is clipped to *)
(* the image, so a shape is a predicate on the image's positions.          *)
(***************************************************************************)
InRectangle(x0, y0, x1, y1, p) ==
    /\ x0 <= p[1] /\ p[1] <= x1
    /\ y0 <= p[2] /\ p[2] <= y1

\* Pillow's quarter_delta: deviation of the lattice point (x, y) from the
\* ellipse of width a and height b, in doubled coordinates about its centre
QuarterDelta(a, b, x, y) == Abs(Sq(a) * Sq(y) + Sq(b) * Sq(x) - Sq(a) * Sq(b))

\* Pillow's quarter_next, walked from (cx, cy) until row t: the x-extent of
\* the ellipse in row t is the cx of the first boundary point of that row
RECURSIVE QuarterWalk(_, _, _, _, _)
QuarterWalk(a, b, cx, cy, t) ==
    IF cy >= t THEN cx
    ELSE LET d1 == QuarterDelta(a, b, cx, cy + 2)
             d2 == QuarterDelta(a, b, cx - 2, cy + 2)
             d3 == QuarterDelta(a, b, cx - 2, cy)
             nd == IF d1 > d2 THEN d2 ELSE d1
         IN  IF cx > 1
             THEN IF nd > d3 THEN QuarterWalk(a, b, cx - 2, cy, t)
                  ELSE IF d1 > d2 THEN QuarterWalk(a, b, cx - 2, cy + 2, t)
                  ELSE QuarterWalk(a, b, cx, cy + 2, t)
             ELSE QuarterWalk(a, b, cx, cy + 2, t)

\* draw.ellipse((x0, y0, x1, y1), fill): the filled ellipse of that bounding
\* box, without anti-aliasing; nothing when the box is inverted
InEllipse(x0, y0, x1, y1, p) ==
    LET a == x1 - x0
        b == y1 - y0
        X == 2 * (p[1] - x0) - a
        Y == 2 * (p[2] - y0) - b
    IN  /\ a >= 0 /\ b >= 0
        /\ Abs(Y) <= b
        /\ Abs(X) <= QuarterWalk(a, b, a, b % 2, Abs(Y))

\* a pieslice of the ellipse: the half or quarter on the side (sx, sy) of
\* its centre (-1 left/top, 1 right/bottom, 0 both)
InPie(x0, y0, x1, y1, sx, sy, p) ==
    LET X == 2 * (p[1] - x0) - (x1 - x0)
        Y == 2 * (p[2] - y0) - (y1 - y0)
    IN  /\ InEllipse(x0, y0, x1, y1, p)
        /\ sx * X >= 0
        /\ sy * Y >= 0

\* draw.rounded_rectangle((x0, y0, x1, y1), radius, fill)
InRoundedRectangle(x0, y0, x1, y1, radius, p) ==
    LET d0 == 2 * radius
        full_x == d0 >= x1 - x0 - 1
        d1 == IF full_x THEN x1 - x0 ELSE d0
        full_y == d1 >= y1 - y0 - 1
        d == IF full_y THEN y1 - y0 ELSE d1
        r == d \div 2
    IN  IF full_x /\ full_y THEN InEllipse(x0, y0, x1, y1, p)
        ELSE IF d = 0 THEN InRectangle(x0, y0, x1, y1, p)
        ELSE IF full_x
        THEN \/ InPie(x0, y0, x0 + d, y0 + d, 0, -1, p)
             \/ InPie(x0, y1 - d, x0 + d, y1, 0, 1, p)
             \/ InRectangle(x0, y0 + r + 1, x1, y1 - r - 1, p)
        ELSE IF full_y
        THEN \/ InPie(x0, y0, x0 + d, y0 + d, -1, 0, p)
             \/ InPie(x1 - d, y0, x1, y0 + d, 1, 0, p)
             \/ /\ x1 - r - 1 > x0 + r + 1
                /\ InRectangle(x0 + r + 1, y0, x1 - r - 1, y1, p)
        ELSE \/ InPie(x0, y0, x0 + d, y0 + d, -1, -1, p)
             \/ InPie(x1 - d, y0, x1, y0 + d, 1, -1, p)
             \/ InPie(x1 - d, y1 - d, x1, y1, 1, 1, p)
             \/ InPie(x0, y1 - d, x0 + d, y1, -1, 1, p)
             \/ /\ x1 - r - 1 > x0 + r + 1
                /\ InRectangle(x0 + r + 1, y0, x1 - r - 1, y1, p)
             \/ InRectangle(x0, y0 + r + 1, x0 + r, y1 - r - 1, p)
             \/ InRectangle(x1 - r, y0 + r + 1, x1, y1 - r - 1, p)

\* int(min(size) * 0.2)
CornerRadius(w, h) == Min(w, h) \div 5

\* the 'L' mask of size (w, h) drawn for the chosen shape, 0 or 255 a pixel
ShapeMask(shape, w, h) ==
    [p \in Pos(w, h) |->
        IF shape = "Circle"
        THEN IF InEllipse(0, 0, w, h, p) THEN 255 ELSE 0
        ELSE IF shape = "Rounded Rectangle"
        THEN IF InRoundedRectangle(0, 0, w, h, CornerRadius(w, h), p)
             THEN 255 ELSE 0
        ELSE IF InRectangle(0, 0, w, h, p) THEN 255 ELSE 0]

\* img.paste(source, (ox, oy), mask) with a 0/255 mask of the source's size:
\* source[q] is the source's pixel at its position q; clipped to the canvas
Paste(canvas, source, w, h, ox, oy, mask) ==
    [canvas EXCEPT !.px =
        [p \in DOMAIN canvas.px |->
            LET q == <<p[1] - ox, p[2] - oy>>
            IN  IF q \in Pos(w, h) /\ mask[q] = 255
                THEN source[q] ELSE canvas.px[p]]]

(***************************************************************************)
(* create_qr_image, step by step.  a is the record of its arguments:       *)
(* qr_size and qr (qr.get_size(), qr.get_module), module_size, border,     *)
(* light_color, dark_color, has_logo (logo_image is not None) and the      *)
(* logo_options size (in percent), shape, background_style, border_opt.    *)
(***************************************************************************)
\* the border counted on one side only
ImageSizeOneBorder(a) == (a.qr_size + a.border) * a.module_size

\* image_size = (qr.get_size() + border * 2) * module_size
ImageSize(a) == (a.qr_size + a.border * 2) * a.module_size

\* the canvas is RGBA exactly for the halo
CanvasMode(a) == IF a.background_style = "Gradient Halo" THEN "RGBA" ELSE "RGB"

\* the quiet zone forgotten
BlockOriginNoBorder(x, border, module_size) == x * module_size

\* first pixel of the block of module index x: (x + border) * module_size
BlockOrigin(x, border, module_size) == (x + border) * module_size

\* the loops of lines 31-36 paint p: some dark module's block of
\* module_size by module_size pixels holds it
DarkAt(a, p) ==
    \E x \in 0 .. a.qr_size - 1, y \in 0 .. a.qr_size - 1 :
        /\ a.qr[<<x, y>>]
        /\ p[1] - BlockOrigin(x, a.border, a.module_size) \in 0 .. a.module_size - 1
        /\ p[2] - BlockOrigin(y, a.border, a.module_size) \in 0 .. a.module_size - 1

\* section 1: allocate the canvas in light_color, paint the dark modules
Rasterized(a) ==
    LET base == NewImage(CanvasMode(a), ImageSize(a), ImageSize(a), a.light_color)
    IN  [base EXCEPT !.px =
            [p \in DOMAIN base.px |->
                IF DarkAt(a, p) THEN Pixel(Rgb(a.dark_color), 255)
                ELSE base.px[p]]]

\* logo_max_size = int(image_size * logo_size_ratio)
LogoMaxSize(a) == (ImageSize(a) * a.size) \div 100

\* Image.thumbnail's round_aspect for the width: floor or ceiling of
\* M * w / h, whichever keeps the aspect ratio w / h closer, at least 1
RoundAspectX(w, h, M) ==
    LET f == (M * w) \div h
        c == CeilDiv(M * w, h)
    IN  Max(IF Abs(w * M - f * h) <= Abs(w * M - c * h) THEN f ELSE c, 1)

\* the same for the height: floor or ceiling of M * h / w
RoundAspectY(w, h, M) ==
    LET f == (M * h) \div w
        c == CeilDiv(M * h, w)
    IN  Max(IF f = 0 \/ Abs(w * f - M * h) * c <= Abs(w * c - M * h) * f
            THEN f ELSE c, 1)

\* Image.thumbnail((M, M)) leaves an image that fits alone
Fits(logo, M) == M >= logo.w /\ M >= logo.h

\* x / y with y = 0 in thumbnail's preserve_aspect_ratio: ZeroDivisionError
ThumbnailRaises(logo, M) == ~Fits(logo, M) /\ M = 0

\* preserve_aspect_ratio with x = y = M: x / y >= aspect when w <= h
ThumbnailSize(logo, M) ==
    IF logo.h >= logo.w
    THEN <<RoundAspectX(logo.w, logo.h, M), M>>
    ELSE <<M, RoundAspectY(logo.w, logo.h, M)>>

\* logo_image.thumbnail((M, M), LANCZOS): resizes the image object in place
Thumbnail(logo, M) ==
    IF Fits(logo, M) THEN logo
    ELSE LET sz == ThumbnailSize(logo, M)
         IN  [logo EXCEPT !.w = sz[1], !.h = sz[2], !.hist = Append(@, sz)]

\* logo_x, logo_y: (image_size - logo size) // 2
Centered(n, w) == (n - w) \div 2

\* --- 2a. Gradient Halo -------------------------------------------------
\* four times the squared distance of pixel p from (image_size/2, image_size/2)
Dist2(n, p) == Sq(2 * p[1] - n) + Sq(2 * p[2] - n)

\* (255 * (d - inner) / (outer - inner)).astype(uint8) with inner = L / 2 and
\* outer = inner + 2 * module_size: the floor of (255*sqrt(4 d^2) - 255*L) / (4*m)
FadeValue(n, L, m, p) == (ISqrt(Sq(255) * Dist2(n, p)) - 255 * L) \div (4 * m)

\* the line that zeroes the inner disc left out
HaloAlphaNoCutout(n, L, m, p) ==
    LET d2 == Dist2(n, p)
    IN  IF d2 > Sq(L) /\ d2 < Sq(L + 4 * m) THEN FadeValue(n, L, m, p) ELSE 255

\* alpha_mask: 255, then the fade zone, then 0 within the inner radius
HaloAlpha(n, L, m, p) ==
    LET d2 == Dist2(n, p)
        fade_zone == d2 > Sq(L) /\ d2 < Sq(L + 4 * m)
        faded == IF fade_zone THEN FadeValue(n, L, m, p) ELSE 255
    IN  IF d2 <= Sq(L) THEN 0 ELSE faded

\* img.putalpha(alpha_mask)
WithHalo(canvas, a, logo) ==
    [canvas EXCEPT !.px =
        [p \in DOMAIN canvas.px |->
            [canvas.px[p] EXCEPT !.a =
                HaloAlpha(ImageSize(a), Max(logo.w, logo.h), a.module_size, p)]]]

\* --- 2a. Radial Gradient -----------------------------------------------
\* grad_size = int(max(logo_image.size) * 1.2)
GradSize(logo) == (Max(logo.w, logo.h) * 6) \div 5

\* int(light * ratio + dark * (1 - ratio)) with ratio = i / grad_size
RingChannel(light, dark, i, g) == (light * i + dark * (g - i)) \div g

RingColour(a, i, g) ==
    <<RingChannel(a.light_color[1], a.dark_color[1], i, g),
      RingChannel(a.light_color[2], a.dark_color[2], i, g),
      RingChannel(a.light_color[3], a.dark_color[3], i, g)>>

\* ring i is draw.ellipse((i, i, g - i - 1, g - i - 1)): from i > (g - 1) / 2
\* on the box is inverted, which a strict Pillow answers with ValueError
GradientRaises(strict, g) == strict /\ \E i \in 0 .. g - 1 : g - i - 1 < i

\* the buffer starts black; rings are drawn for i = 0, 1, ..., so a pixel
\* keeps the colour of the last ring that holds it
GradImage(a, g) ==
    [mode |-> "RGB", size |-> <<g, g>>,
     px |-> [p \in Pos(g, g) |->
        LET rings == {i \in 0 .. g - 1 : InEllipse(i, i, g - i - 1, g - i - 1, p)}
        IN  IF rings = {} THEN Pixel(Rgb(<<0, 0, 0>>), 255)
            ELSE LET last == CHOOSE i \in rings : \A j \in rings : j <= i
                 IN  Pixel(Rgb(RingColour(a, last, g)), 255)]]

\* img.paste(grad_img, ((image_size - grad_size)//2, ...)): no mask
WithGradient(canvas, a, logo) ==
    LET g == GradSize(logo)
        buf == GradImage(a, g)
        at == Centered(ImageSize(a), g)
        src == buf.px
    IN  Paste(canvas, src, g, g, at, at, [q \in Pos(g, g) |-> 255])

\* --- 2b. border frame --------------------------------------------------
\* round() in place of int()
BorderWidthRounded(module_size) == Max(1, RoundHalfEven(module_size * 3, 4))

\* border_width = max(1, int(module_size * 0.75))
BorderWidth(module_size) == Max(1, (module_size * 3) \div 4)

\* the frame in dark_color pasted through border_mask
WithFrame(canvas, a, logo) ==
    LET bw == BorderWidth(a.module_size)
        fw == logo.w + bw * 2
        fh == logo.h + bw * 2
        src == [q \in Pos(fw, fh) |-> Pixel(Rgb(a.dark_color), 255)]
    IN  Paste(canvas, src, fw, fh,
              Centered(ImageSize(a), logo.w) - bw,
              Centered(ImageSize(a), logo.h) - bw,
              ShapeMask(a.shape, fw, fh))

\* the frame pasted after the logo instead of before it
FrameOverLogo(canvas, a, logo) ==
    LET src == [q \in Pos(logo.w, logo.h) |->
                    Pixel(LogoPx(logo, q[1], q[2]), 255)]
        pasted == Paste(canvas, src, logo.w, logo.h,
                        Centered(ImageSize(a), logo.w),
                        Centered(ImageSize(a), logo.h),
                        ShapeMask(a.shape, logo.w, logo.h))
    IN  IF a.border_opt THEN WithFrame(pasted, a, logo) ELSE pasted

\* --- 2c. the logo ------------------------------------------------------
WithLogo(canvas, a, logo) ==
    LET src == [q \in Pos(logo.w, logo.h) |->
                    Pixel(LogoPx(logo, q[1], q[2]), 255)]
    IN  Paste(canvas, src, logo.w, logo.h,
              Centered(ImageSize(a), logo.w), Centered(ImageSize(a), logo.h),
              ShapeMask(a.shape, logo.w, logo.h))

\* --- flatten -----------------------------------------------------------
\* Pillow's BLEND8: (in1 * (255 - mask) + in2 * mask) / 255, rounded
Blend8(mask, in1, in2) ==
    LET t == in1 * (255 - mask) + in2 * mask + 128
    IN  ((t \div 256) + t) \div 256

\* one pixel of rgb_img.paste(img, (0, 0), img): source over light_color
Over(px, light) ==
    IF px.a = 255 THEN px.c
    ELSE Rgb(<<Blend8(px.a, light[1], px.c.v[1]),
               Blend8(px.a, light[2], px.c.v[2]),
               Blend8(px.a, light[3], px.c.v[3])>>)

Flatten(canvas, light) ==
    [mode |-> "RGB", size |-> canvas.size,
     px |-> [p \in DOMAIN canvas.px |-> Pixel(Over(canvas.px[p], light), 255)]]

\* the canvas returned as it is, RGBA or not
ReturnedUnflattened(canvas, a) == canvas

\* lines 113-119: the RGBA canvas is flattened, the RGB canvas returned as is
Returned(canvas, a) ==
    IF canvas.mode = "RGBA" THEN Flatten(canvas, a.light_color) ELSE canvas

\* create_qr_image as a function of its arguments and of the logo object as
\* it stands at the call: the image returned, or NoImage when it raises
Render(a, logo, strict) ==
    LET base == Rasterized(a)
        fitted == Thumbnail(logo, LogoMaxSize(a))
        backed == IF a.background_style = "Gradient Halo"
                  THEN WithHalo(base, a, fitted)
                  ELSE IF a.background_style = "Radial Gradient"
                  THEN WithGradient(base, a, fitted)
                  ELSE base
        framed == IF a.border_opt THEN WithFrame(backed, a, fitted) ELSE backed
    IN  IF ~a.has_logo THEN Returned(base, a)
        ELSE IF ThumbnailRaises(logo, LogoMaxSize(a)) THEN NoImage
        ELSE IF /\ a.background_style = "Radial Gradient"
                /\ GradientRaises(strict, GradSize(fitted)) THEN NoImage
        ELSE Returned(WithLogo(framed, a, fitted), a)

(***************************************************************************)
(* hex_to_rgb.  A string is a sequence of one-character strings.           *)
(***************************************************************************)
LowerDigits ==
    <<"0", "1", "2", "3", "4", "5", "6", "7", "8", "9",
      "a", "b", "c", "d", "e", "f">>

UpperDigits == <<"A", "B", "C", "D", "E", "F">>

IsHexDigit(c) ==
    \/ \E i \in DOMAIN LowerDigits : LowerDigits[i] = c
    \/ \E i \in DOMAIN UpperDigits : UpperDigits[i] = c

DigitValue(c) ==
    IF \E i \in DOMAIN UpperDigits : UpperDigits[i] = c
    THEN 9 + (CHOOSE i \in DOMAIN UpperDigits : UpperDigits[i] = c)
    ELSE (CHOOSE i \in DOMAIN LowerDigits : LowerDigits[i] = c) - 1

\* str.lstrip('#'): every leading '#' goes
RECURSIVE LStrip(_)
LStrip(str) ==
    IF Len(str) > 0 /\ str[1] = "#" THEN LStrip(Tail(str)) ELSE str

\* the slice str[i:j] (0-based, cut at the end of the string)
Slice(str, i, j) == SubSeq(str, i + 1, Min(j, Len(str)))

\* what int(str, 16) reads: blanks around, an optional sign, hex digits
RECURSIVE StripBlanks(_)
StripBlanks(str) ==
    IF Len(str) > 0 /\ str[1] = " " THEN StripBlanks(Tail(str))
    ELSE IF Len(str) > 0 /\ str[Len(str)] = " "
    THEN StripBlanks(SubSeq(str, 1, Len(str) - 1))
    ELSE str

Unsigned(str) ==
    LET t == StripBlanks(str)
    IN  IF Len(t) > 0 /\ t[1] \in {"-", "+"} THEN Tail(t) ELSE t

\* int(str, 16) raises ValueError unless digits remain (for the slices of
\* at most two characters hex_to_rgb passes: no room for 0x or underscores)
IntParses(str) ==
    /\ Len(Unsigned(str)) > 0
    /\ \A i \in DOMAIN Unsigned(str) : IsHexDigit(Unsigned(str)[i])

RECURSIVE DigitsValue(_)
DigitsValue(ds) ==
    IF Len(ds) = 0 THEN 0
    ELSE 16 * DigitsValue(SubSeq(ds, 1, Len(ds) - 1)) + DigitValue(ds[Len(ds)])

IntBase16(str) ==
    LET t == StripBlanks(str)
        v == DigitsValue(Unsigned(str))
    IN  IF Len(t) > 0 /\ t[1] = "-" THEN -v ELSE v

\* hex_to_rgb: [ok, rgb], ok FALSE when int() raises ValueError
HexToRgb(str) ==
    LET h == LStrip(str)
        parts == <<Slice(h, 0, 2), Slice(h, 2, 4), Slice(h, 4, 6)>>
    IN  IF \A i \in 1 .. 3 : IntParses(parts[i])
        THEN [ok |-> TRUE,
              rgb |-> <<IntBase16(parts[1]), IntBase16(parts[2]),
                        IntBase16(parts[3])>>]
        ELSE [ok |-> FALSE, rgb |-> << >>]

(***************************************************************************)
(* Inputs.                                                                 *)
(***************************************************************************)
\* module grids of size n: all light, one dark module in the top right
\* corner, a checkerboard
Grids(n) ==
    { [p \in Pos(n, n) |-> FALSE],
      [p \in Pos(n, n) |-> p = <<n - 1, 0>>],
      [p \in Pos(n, n) |-> (p[1] + p[2]) % 2 = 0] }

\* <<light_color, dark_color>>
Palettes ==
    { << <<255, 255, 255>>, <<0, 0, 0>> >>,
      << <<10, 200, 90>>, <<250, 40, 90>> >> }

LogoSizes == { <<MaxLogo, MaxLogo>>, <<3, 2>> }

\* a logo as Image.open gives it: file src, its size, nothing resized yet
FreshLogo(src) == [src |-> src, w |-> src[1], h |-> src[2], hist |-> << >>]

Shapes == {"Square", "Circle", "Rounded Rectangle"}

Styles == {"Solid", "Gradient Halo", "Radial Gradient"}

Ratios == {25, 50, 100}

Geometry(n, q, m, b, pal) ==
    [qr_size |-> n, qr |-> q, module_size |-> m, border |-> b,
     light_color |-> pal[1], dark_color |-> pal[2]]

Geometries ==
    { Geometry(n, q, m, b, pal) :
        <<n, q>> \in UNION { {n} \X Grids(n) : n \in {0, MaxGrid} },
        m \in {0, 1, MaxModule}, b \in {0, MaxBorder}, pal \in Palettes }

WithOptions(g, logo, ratio, shape, style, bo) ==
    [qr_size |-> g.qr_size, qr |-> g.qr, module_size |-> g.module_size,
     border |-> g.border, light_color |-> g.light_color,
     dark_color |-> g.dark_color, has_logo |-> logo, size |-> ratio,
     shape |-> shape, background_style |-> style, border_opt |-> bo]

\* calls without a logo (the options then only choose the canvas mode) and
\* calls with the logo object
Inputs ==
    { WithOptions(g, FALSE, 25, "Square", style, FALSE) :
        g \in Geometries, style \in Styles }
    \cup
    { WithOptions(g, TRUE, ratio, shape, style, bo) :
        g \in Geometries, ratio \in Ratios, shape \in Shapes,
        style \in Styles, bo \in BOOLEAN }

\* for runs of several calls on one logo object: one grid, one palette
FewInputs ==
    { a \in Inputs :
        /\ a.qr_size = MaxGrid /\ a.border = MaxBorder
        /\ a.module_size = MaxModule
        /\ a.light_color = <<255, 255, 255>>
        /\ a.qr = [p \in Pos(MaxGrid, MaxGrid) |-> (p[1] + p[2]) % 2 = 0] }

HexChars == {"#", "1", "F", "Z", "-"}

HexStrings == UNION { [1 .. n -> HexChars] : n \in 0 .. MaxHexLen }

(***************************************************************************)
(* The state machine.                                                      *)
(***************************************************************************)
NoArgs == WithOptions(Geometry(0, << >>, 0, 0, << <<0, 0, 0>>, <<0, 0, 0>> >>),
                      FALSE, 25, "Square", "Solid", FALSE)

NoLoc == [logo_x |-> 0, logo_y |-> 0, border_width |-> 0,
          frame_size |-> <<0, 0>>, frame_at |-> <<0, 0>>, grad_size |-> 0]

Init ==
    /\ strict_coords \in BOOLEAN
    /\ logo_image \in { FreshLogo(src) : src \in LogoSizes }
    /\ pc = "idle"
    /\ args = NoArgs
    /\ img = NoImage
    /\ grad_img = NoImage
    /\ loc = NoLoc
    /\ result = NoImage
    /\ calls = 0
    /\ hex_color = << >>
    /\ hex_out = [st |-> "idle", ok |-> FALSE, rgb |-> << >>, shown |-> "none"]

\* lines 21-36: a call starts; the canvas is allocated and rasterized
Start(a) ==
    /\ pc = "idle"
    /\ args' = a
    /\ img' = Rasterized(a)
    /\ grad_img' = NoImage
    /\ loc' = NoLoc
    /\ result' = NoImage
    /\ calls' = calls + 1
    /\ pc' = "rasterized"
    /\ UNCHANGED <<strict_coords, logo_image, hex_color, hex_out>>

Rasterize == \E a \in Inputs : Start(a)

RasterizeFew == \E a \in FewInputs : Start(a)

\* line 39: no logo, nothing to integrate
NoLogo ==
    /\ pc = "rasterized"
    /\ ~args.has_logo
    /\ pc' = "composited"
    /\ UNCHANGED <<strict_coords, logo_image, args, img, grad_img, loc, result,
                   calls, hex_color, hex_out>>

\* lines 40-45: the logo object is fitted in place and centred
FitLogo ==
    /\ pc = "rasterized"
    /\ args.has_logo
    /\ IF ThumbnailRaises(logo_image, LogoMaxSize(args))
       THEN /\ pc' = "raised"
            /\ UNCHANGED <<logo_image, loc>>
       ELSE /\ logo_image' = Thumbnail(logo_image, LogoMaxSize(args))
            /\ loc' = [loc EXCEPT
                    !.logo_x = Centered(ImageSize(args), logo_image'.w),
                    !.logo_y = Centered(ImageSize(args), logo_image'.h)]
            /\ pc' = "fitted"
    /\ UNCHANGED <<strict_coords, args, img, grad_img, result, calls,
                   hex_color, hex_out>>

\* lines 48-75: the background behind the logo
Background ==
    /\ pc = "fitted"
    /\ IF args.background_style = "Gradient Halo"
       THEN /\ img' = WithHalo(img, args, logo_image)
            /\ pc' = "backed"
            /\ UNCHANGED <<grad_img, loc>>
       ELSE IF args.background_style = "Radial Gradient"
       THEN /\ loc' = [loc EXCEPT !.grad_size = GradSize(logo_image)]
            /\ IF GradientRaises(strict_coords, GradSize(logo_image))
               THEN /\ pc' = "raised"
                    /\ UNCHANGED <<img, grad_img>>
               ELSE /\ grad_img' = GradImage(args, GradSize(logo_image))
                    /\ img' = WithGradient(img, args, logo_image)
                    /\ pc' = "backed"
       ELSE /\ pc' = "backed"
            /\ UNCHANGED <<img, grad_img, loc>>
    /\ UNCHANGED <<strict_coords, logo_image, args, result, calls,
                   hex_color, hex_out>>

\* lines 92-108: the border frame, when asked for
Frame ==
    /\ pc = "backed"
    /\ IF args.border_opt
       THEN LET bw == BorderWidth(args.module_size)
            IN  /\ loc' = [loc EXCEPT
                        !.border_width = bw,
                        !.frame_size = <<logo_image.w + bw * 2,
                                         logo_image.h + bw * 2>>,
                        !.frame_at = <<loc.logo_x - bw, loc.logo_y - bw>>]
                /\ img' = WithFrame(img, args, logo_image)
       ELSE UNCHANGED <<img, loc>>
    /\ pc' = "framed"
    /\ UNCHANGED <<strict_coords, logo_image, args, grad_img, result, calls,
                   hex_color, hex_out>>

\* line 111: the logo through its shape mask
PasteLogo ==
    /\ pc = "framed"
    /\ img' = WithLogo(img, args, logo_image)
    /\ pc' = "composited"
    /\ UNCHANGED <<strict_coords, logo_image, args, grad_img, loc, result,
                   calls, hex_color, hex_out>>

\* lines 113-119: flatten an RGBA canvas, return
Return ==
    /\ pc = "composited"
    /\ result' = Returned(img, args)
    /\ pc' = "returned"
    /\ UNCHANGED <<strict_coords, logo_image, args, img, grad_img, loc, calls,
                   hex_color, hex_out>>

\* the caller renders again with the logo object it still holds
Again ==
    /\ pc \in {"returned", "raised"}
    /\ calls < MaxCalls
    /\ pc' = "idle"
    /\ UNCHANGED <<strict_coords, logo_image, args, img, grad_img, loc, result,
                   calls, hex_color, hex_out>>

\* hex_to_rgb(hex_color)
HexCall ==
    /\ hex_out.st = "idle"
    /\ \E str \in HexStrings :
          /\ hex_color' = str
          /\ hex_out' = [st |-> "parsed", ok |-> HexToRgb(str).ok,
                         rgb |-> HexToRgb(str).rgb, shown |-> "none"]
    /\ UNCHANGED renderVars

\* main, lines 169-193: with the colour parsed the image is rendered and
\* shown; the ValueError is caught and only st.error is shown
MainShow ==
    /\ hex_out.st = "parsed"
    /\ hex_out' = [hex_out EXCEPT !.st = "shown",
                      !.shown = IF hex_out.ok THEN "image" ELSE "error"]
    /\ UNCHANGED <<hex_color>>
    /\ UNCHANGED renderVars

Next == Rasterize \/ NoLogo \/ FitLogo \/ Background \/ Frame \/ PasteLogo \/ Return

NextCalls ==
    RasterizeFew \/ NoLogo \/ FitLogo \/ Background \/ Frame \/ PasteLogo
        \/ Return \/ Again

NextHex == HexCall \/ MainShow

Spec == Init /\ [][Next]_vars

SpecCalls == Init /\ [][NextCalls]_vars

SpecHex == Init /\ [][NextHex]_vars

(***************************************************************************)
(* The claims.                                                             *)
(***************************************************************************)
Edge == (args.qr_size + 2 * args.border) * args.module_size

Longest == Max(logo_image.w, logo_image.h)

\* the canvas position p lies under a 255 of the mask of the given shape and
\* size pasted at (ox, oy)
UnderMask(shape, w, h, ox, oy, p) ==
    LET q == <<p[1] - ox, p[2] - oy>>
    IN  q \in Pos(w, h) /\ ShapeMask(shape, w, h)[q] = 255

UnderLogo(p) ==
    UnderMask(args.shape, logo_image.w, logo_image.h,
              (Edge - logo_image.w) \div 2, (Edge - logo_image.h) \div 2, p)

FloorWidth == Max(1, (3 * args.module_size) \div 4)

UnderFrame(p) ==
    UnderMask(args.shape, logo_image.w + 2 * FloorWidth,
              logo_image.h + 2 * FloorWidth,
              (Edge - logo_image.w) \div 2 - FloorWidth,
              (Edge - logo_image.h) \div 2 - FloorWidth, p)

\* C1: for a grid of size s >= 1, module size m >= 1 and border b >= 0 the
\* image create_qr_image returns is (s + 2b) * m wide and high, on every
\* path (logo or not, every style, shape and border option, flattened or not).
C1_OutputEdge ==
    (pc = "returned" /\ args.qr_size >= 1 /\ args.module_size >= 1) =>
        /\ result.size = <<Edge, Edge>>
        /\ DOMAIN result.px = Pos(Edge, Edge)

C1_Witness ==
    /\ pc = "returned"
    /\ args.has_logo /\ args.border_opt
    /\ args.background_style = "Gradient Halo"
    /\ args.qr_size >= 1 /\ args.module_size >= 1 /\ args.border >= 1
    /\ result.size = <<Edge, Edge>>

\* the module (column, row) whose block holds the pixel p is dark
InDarkModule(p) ==
    LET mx == (p[1] \div args.module_size) - args.border
        my == (p[2] \div args.module_size) - args.border
    IN  /\ mx \in 0 .. args.qr_size - 1
        /\ my \in 0 .. args.qr_size - 1
        /\ args.qr[<<mx, my>>]

InQuietZone(p) ==
    \/ (p[1] \div args.module_size) - args.border \notin 0 .. args.qr_size - 1
    \/ (p[2] \div args.module_size) - args.border \notin 0 .. args.qr_size - 1

\* p lies in a pasted overlay: the logo's mask, the frame's mask, the halo
\* (distance from the centre below the outer radius) or the gradient square
Overlaid(p) ==
    /\ args.has_logo
    /\ \/ UnderLogo(p)
       \/ args.border_opt /\ UnderFrame(p)
       \/ /\ args.background_style = "Gradient Halo"
          /\ Sq(2 * p[1] - Edge) + Sq(2 * p[2] - Edge)
                < Sq(Longest + 4 * args.module_size)
       \/ /\ args.background_style = "Radial Gradient"
          /\ LET g == (6 * Longest) \div 5
                 at == (Edge - g) \div 2
             IN  p[1] - at \in 0 .. g - 1 /\ p[2] - at \in 0 .. g - 1

\* C2: in the returned image every pixel outside every pasted overlay is
\* lightColor when its module is light or it lies in the quiet zone, and
\* darkColor when its module is dark (module (x, y) being the m-by-m block at
\* ((x+b)*m, (y+b)*m)); no quiet-zone pixel is dark; without a logo the image
\* holds these two colours only.
C2_ModuleColours ==
    pc = "returned" =>
        \A p \in DOMAIN result.px :
            ~Overlaid(p) =>
                /\ result.px[p].c =
                      Rgb(IF InDarkModule(p) THEN args.dark_color
                          ELSE args.light_color)
                /\ InQuietZone(p) => result.px[p].c # Rgb(args.dark_color)

C2_Witness ==
    /\ pc = "returned"
    /\ args.has_logo /\ ~args.border_opt
    /\ args.background_style = "Solid" /\ args.shape = "Circle"
    /\ \E p, r \in DOMAIN result.px :
          /\ ~Overlaid(p) /\ InDarkModule(p)
          /\ UnderLogo(r)
          /\ ~UnderLogo(p) /\ p[1] - (Edge - logo_image.w) \div 2 \in 0 .. logo_image.w - 1
                           /\ p[2] - (Edge - logo_image.h) \div 2 \in 0 .. logo_image.h - 1

\* C3: the returned image is opaque RGB whatever the style and whether or not
\* a logo is given: the canvas is RGBA exactly for 'Gradient Halo', and an RGBA
\* canvas is composited onto lightColor before it is returned, so a pixel left
\* with alpha 0 comes out as lightColor (and one with alpha 255 as itself).
C3_OpaqueOutput ==
    /\ img.mode # "none" =>
          (img.mode = "RGBA" <=> args.background_style = "Gradient Halo")
    /\ pc = "returned" =>
          /\ result.mode = "RGB"
          /\ \A p \in DOMAIN result.px :
                /\ result.px[p].a = 255
                /\ img.px[p].a = 0 => result.px[p].c = Rgb(args.light_color)
                /\ img.px[p].a = 255 => result.px[p].c = img.px[p].c

C3_Witness ==
    /\ pc = "returned"
    /\ img.mode = "RGBA" /\ result.mode = "RGB"
    /\ args.has_logo
    /\ \E p, q \in DOMAIN img.px :
          /\ img.px[p].a = 0 /\ img.px[p].c = Rgb(args.dark_color)
          /\ result.px[p].c = Rgb(args.light_color)
          /\ img.px[q].a \in 1 .. 254

\* C4: after the halo step every pixel of the canvas at distance d from the
\* centre (image_size/2, image_size/2) has alpha 0 when d <= innerRadius,
\* 255 when d >= outerRadius and the truncated 255*(d-inner)/(outer-inner)
\* between, with innerRadius = max(logo size)/2 and outerRadius = innerRadius
\* + 2*moduleSize; alpha never decreases with d and stays within 0..255.
\* (Distances are compared squared and doubled: D = (2d)^2, 2*inner = L.)
C4_HaloAlpha ==
    (pc = "backed" /\ args.background_style = "Gradient Halo") =>
        LET L == Longest
            m == args.module_size
            D(p) == Sq(2 * p[1] - Edge) + Sq(2 * p[2] - Edge)
            A(p) == img.px[p].a
            byDist == { <<D(p), A(p)>> : p \in DOMAIN img.px }
        IN  /\ DOMAIN img.px = Pos(Edge, Edge)
            /\ \A p \in DOMAIN img.px :
                  /\ A(p) \in 0 .. 255
                  /\ D(p) <= Sq(L) => A(p) = 0
                  /\ D(p) >= Sq(L + 4 * m) => A(p) = 255
                  /\ (D(p) > Sq(L) /\ D(p) < Sq(L + 4 * m)) =>
                        /\ Sq(4 * m * A(p) + 255 * L) <= Sq(255) * D(p)
                        /\ Sq(4 * m * (A(p) + 1) + 255 * L) > Sq(255) * D(p)
            /\ \A s \in byDist, t \in byDist : s[1] <= t[1] => s[2] <= t[2]

C4_Witness ==
    /\ pc = "backed"
    /\ args.background_style = "Gradient Halo"
    /\ \E p, q, r \in DOMAIN img.px :
          /\ img.px[p].a = 0
          /\ img.px[q].a \in 1 .. 254
          /\ img.px[r].a = 255

\* C5: the gradient buffer of edge int(1.2 * max(logo size)) holds a disc that
\* is lightColor at its outer edge and darkColor at its centre, each ring being
\* the rounded interpolation lerp(light, dark, i / gradSize) of the channels.
C5_LightEdgeDarkCentre ==
    (pc = "backed" /\ args.background_style = "Radial Gradient") =>
        LET g == (6 * Longest) \div 5
            c == (g - 1) \div 2
        IN  /\ grad_img.size = <<g, g>>
            /\ \A p \in DOMAIN grad_img.px :
                  (InEllipse(0, 0, g - 1, g - 1, p)
                     /\ ~InEllipse(1, 1, g - 2, g - 2, p)) =>
                        grad_img.px[p].c = Rgb(args.light_color)
            /\ grad_img.px[<<c, c>>].c = Rgb(args.dark_color)

\* the frame as the claim describes it, for a border width bw
FrameAsStated(bw) ==
    (pc \in {"framed", "composited", "returned"} /\ args.has_logo
        /\ args.border_opt) =>
        LET fw == logo_image.w + 2 * bw
            fh == logo_image.h + 2 * bw
            fx == (Edge - logo_image.w) \div 2 - bw
            fy == (Edge - logo_image.h) \div 2 - bw
        IN  /\ loc.border_width = bw
            /\ loc.frame_size = <<fw, fh>>
            /\ loc.frame_at = <<fx, fy>>
            /\ pc = "framed" =>
                  \A p \in DOMAIN img.px :
                      UnderMask(args.shape, fw, fh, fx, fy, p) =>
                          img.px[p] = Pixel(Rgb(args.dark_color), 255)

\* C6 as stated: the border width is max(1, round(0.75 * m)); the frame
\* measures the logo plus twice that per axis, has the logo's shape, is filled
\* with darkColor and is pasted at (logoX - width, logoY - width).
C6_RoundedWidth ==
    FrameAsStated(Max(1, RoundHalfEven(3 * args.module_size, 4)))

\* C6 as amended: the border width is max(1, floor(0.75 * m)) (int()
\* truncates); the frame measures the logo plus twice that per axis, has the
\* logo's shape (corner radius floor(0.2 * min(frame size))), is filled with
\* darkColor and is pasted at (logoX - width, logoY - width), logoX and logoY
\* being floor((imageEdge - logoSize) / 2).
C6_TruncatedWidth == FrameAsStated(Max(1, (3 * args.module_size) \div 4))

C6_Witness ==
    /\ pc = "framed"
    /\ args.border_opt
    /\ args.module_size = 2
    /\ loc.border_width = 1
    /\ \E p \in DOMAIN img.px : UnderFrame(p) /\ ~UnderLogo(p)

\* exactly six hexadecimal digits, with or without one leading '#'
SixHexDigits(str) ==
    LET body == IF Len(str) > 0 /\ str[1] = "#" THEN Tail(str) ELSE str
    IN  Len(body) = 6 /\ \A i \in 1 .. 6 : IsHexDigit(body[i])

\* C7: hex_to_rgb returns three channel values in 0..255 exactly for a string
\* of six hex digits with or without one leading '#', and fails, no image
\* being produced, for every other string (a non-hex character, a wrong length).
C7_StrictHex ==
    hex_out.st # "idle" =>
        /\ hex_out.ok <=> SixHexDigits(hex_color)
        /\ hex_out.ok => \A i \in 1 .. 3 : hex_out.rgb[i] \in 0 .. 255
        /\ (hex_out.st = "shown" /\ ~SixHexDigits(hex_color)) =>
              hex_out.shown = "error"

\* C8: a render call with a zero module size or a zero grid size fails and
\* returns no image; a call either returns a complete image of the contract
\* size or raises and returns nothing.
C8_ZeroRejected ==
    /\ pc = "returned" =>
          /\ args.module_size >= 1 /\ args.qr_size >= 1
          /\ result.mode = "RGB" /\ DOMAIN result.px = Pos(Edge, Edge)
    /\ pc = "raised" => result = NoImage

C10_SameAsFirstRender ==
    pc = "returned" =>
        result = Render(args, FreshLogo(logo_image.src), strict_coords)

====
